---- MODULE Spec2Model ----
(***************************************************************************)
(* Model of document_ai_agents/document_parsing_agent.py: the script body  *)
(* (__main__) driving DocumentParsingAgent.get_images and                   *)
(* DocumentParsingAgent.find_layout_items over one                          *)
(* DocumentLayoutParsingState, with the PDF rasterizer, the image encoder   *)
(* and the generative model as external collaborators.                      *)
(***************************************************************************)
EXTENDS Integers, Sequences, FiniteSets, TLC

VARIABLES
    fileExists,      \* Path(state.document_path).is_file()
    doc,             \* what the file at document_path holds (rasterizer input)
    state,           \* _state : DocumentLayoutParsingState
    pc,              \* position of the script / of the handler being run
    result_node1,    \* return value of get_images (line 109)
    result_node2,    \* return value of find_layout_items (line 111)
    documents,       \* local list of find_layout_items (line 67)
    i,               \* loop index of find_layout_items (line 68)
    requests,        \* model requests issued so far in this run (line 80)
    responses,       \* model outcomes received so far in this run (line 80)
    origin,          \* for each entry of documents, the request that produced it
    rasterizerCalls, \* number of calls of extract_images_from_pdf (line 58)
    printed,         \* what lines 113-115 printed
    mock,            \* the answer a deterministic model has given for each page
    deterministic,   \* TRUE when the model is a deterministic mock
    run,             \* number of the pipeline run in progress
    first_result     \* the documents returned by the first run

vars == << fileExists, doc, state, pc, result_node1, result_node2, documents, i,
           requests, responses, origin, rasterizerCalls, printed, mock,
           deterministic, run, first_result >>

-----------------------------------------------------------------------------
(* Bounds of the model *)

MaxPages == 2
MaxItems == 2
LongLen == 11
MaxRuns == 2

(* Program constants *)

MaxItemsPerPage == 10

ElementTypes == {"Table", "Figure", "Image", "Text-block"}

-----------------------------------------------------------------------------
(* Inputs *)

Images == {"imgA", "imgB"}

PageSeqs == UNION { [1..n -> Images] : n \in 0..MaxPages }

Docs == { [readable |-> TRUE, images |-> s] : s \in PageSeqs }
        \cup { [readable |-> FALSE, images |-> << >>] }

\* JSON objects are functions from the keys they hold
EmptyObject == [k \in {} |-> << >>]

\* items the model may return: two that follow the schema, one without
\* summary, one without element_type
InputItems ==
    { [summary |-> "s1", element_type |-> "Table"],
      [summary |-> "s2", element_type |-> "Text-block"],
      [element_type |-> "Figure"],
      [summary |-> "s2"] }

\* an item whose element_type is none of the four values of line 16
ChartItem == [summary |-> "s1", element_type |-> "Chart"]

LongItem == [summary |-> "s1", element_type |-> "Table"]

\* every list of at most MaxItems items, the lists that hold ChartItem, and
\* the lists of MaxItemsPerPage..LongLen equal items
ItemSeqs ==
    (UNION { [1..n -> InputItems] : n \in 0..MaxItems })
    \cup { << ChartItem >>, << LongItem, ChartItem >> }
    \cup { [k \in 1..n |-> LongItem] : n \in MaxItemsPerPage..LongLen }

JsonValues == { [layout_items |-> s] : s \in ItemSeqs } \cup { EmptyObject }

BadText == [valid |-> FALSE, value |-> EmptyObject]

Texts == { [valid |-> TRUE, value |-> v] : v \in JsonValues } \cup { BadText }

Outcomes == { [raises |-> FALSE, text |-> t] : t \in Texts }
            \cup { [raises |-> TRUE, text |-> BadText] }

-----------------------------------------------------------------------------
(* Helpers *)

NoResult1 == [returned |-> FALSE, pages_as_base64_png_images |-> << >>]
NoResult2 == [returned |-> FALSE, documents |-> << >>]

extract_images_from_pdf(d) == [ok |-> d.readable, images |-> d.images]

pil_image_to_base64_png(x) == << "base64png", x >>

\* a variant of EncodePages that yields the pages in reverse order
EncodePages_Reversed(images) ==
    [k \in 1..Len(images) |->
        pil_image_to_base64_png(images[Len(images) + 1 - k])]

EncodePages(images) ==
    [k \in 1..Len(images) |-> pil_image_to_base64_png(images[k])]

json_loads(text) == [ok |-> text.valid, value |-> text.value]

\* a variant of Document that numbers the pages from one
Document_OneBased(x, n) ==
    [page_content |-> x["summary"],
     metadata |-> [page_number |-> n + 1, element_type |-> x["element_type"]]]

\* line 84-90
Document(x, n) ==
    [page_content |-> x["summary"],
     metadata |-> [page_number |-> n, element_type |-> x["element_type"]]]

\* a variant of PageDocuments that keeps the last item of a page first
PageDocuments_Reversed(data, n) ==
    IF "layout_items" \notin DOMAIN data
    THEN [ok |-> FALSE, docs |-> << >>]
    ELSE LET items == data["layout_items"] IN
         IF \E k \in 1..Len(items) :
               \/ "summary" \notin DOMAIN items[k]
               \/ "element_type" \notin DOMAIN items[k]
         THEN [ok |-> FALSE, docs |-> << >>]
         ELSE [ok |-> TRUE,
               docs |-> [k \in 1..Len(items) |->
                           Document(items[Len(items) + 1 - k], n)]]

\* lines 83-92: the list comprehension over data["layout_items"]; a missing
\* key raises KeyError
PageDocuments(data, n) ==
    IF "layout_items" \notin DOMAIN data
    THEN [ok |-> FALSE, docs |-> << >>]
    ELSE LET items == data["layout_items"] IN
         IF \E k \in 1..Len(items) :
               \/ "summary" \notin DOMAIN items[k]
               \/ "element_type" \notin DOMAIN items[k]
         THEN [ok |-> FALSE, docs |-> << >>]
         ELSE [ok |-> TRUE,
               docs |-> [k \in 1..Len(items) |-> Document(items[k], n)]]

\* lines 80-93 for one outcome of the model: the documents of page n, or a raise
InferPage(out, n) ==
    IF out.raises
    THEN [ok |-> FALSE, docs |-> << >>]
    ELSE LET parsed == json_loads(out.text) IN
         IF ~parsed.ok
         THEN [ok |-> FALSE, docs |-> << >>]
         ELSE PageDocuments(parsed.value, n)

-----------------------------------------------------------------------------
(* Initial state: lines 103-107 *)

InitCommon ==
    /\ fileExists \in BOOLEAN
    /\ doc \in Docs
    /\ (~fileExists => doc = [readable |-> FALSE, images |-> << >>])
    /\ state = [document_path |-> "docs.pdf",
                pages_as_base64_png_images |-> << >>,
                documents |-> << >>]
    /\ pc = "get_images"
    /\ result_node1 = NoResult1
    /\ result_node2 = NoResult2
    /\ documents = << >>
    /\ i = 0
    /\ requests = << >>
    /\ responses = << >>
    /\ origin = << >>
    /\ rasterizerCalls = 0
    /\ printed = << >>
    /\ mock = [png \in { pil_image_to_base64_png(x) : x \in Images } |-> << >>]
    /\ run = 1
    /\ first_result = NoResult2

Init == InitCommon /\ deterministic = FALSE

InitTwice == InitCommon /\ deterministic = TRUE

-----------------------------------------------------------------------------
(* Actions *)

\* a variant of GetImages without the assertion of line 56
GetImages_NoFileCheck ==
    /\ pc = "get_images"
    /\ IF FALSE
       THEN /\ pc' = "aborted"
            /\ UNCHANGED << result_node1, rasterizerCalls >>
       ELSE LET ext == extract_images_from_pdf(doc) IN
            /\ rasterizerCalls' = rasterizerCalls + 1
            /\ IF ~ext.ok \/ ext.images = << >>
               THEN /\ pc' = "aborted"
                    /\ UNCHANGED result_node1
               ELSE /\ result_node1' =
                         [returned |-> TRUE,
                          pages_as_base64_png_images |-> EncodePages(ext.images)]
                    /\ pc' = "assign_pages"
    /\ UNCHANGED << fileExists, doc, state, result_node2, documents, i, requests,
                    responses, origin, printed, mock, deterministic, run,
                    first_result >>

\* a variant of GetImages without the assertion of line 60
GetImages_NoEmptyCheck ==
    /\ pc = "get_images"
    /\ IF ~fileExists
       THEN /\ pc' = "aborted"
            /\ UNCHANGED << result_node1, rasterizerCalls >>
       ELSE LET ext == extract_images_from_pdf(doc) IN
            /\ rasterizerCalls' = rasterizerCalls + 1
            /\ IF ~ext.ok
               THEN /\ pc' = "aborted"
                    /\ UNCHANGED result_node1
               ELSE /\ result_node1' =
                         [returned |-> TRUE,
                          pages_as_base64_png_images |-> EncodePages(ext.images)]
                    /\ pc' = "assign_pages"
    /\ UNCHANGED << fileExists, doc, state, result_node2, documents, i, requests,
                    responses, origin, printed, mock, deterministic, run,
                    first_result >>

\* lines 55-64, called at line 109
GetImages ==
    /\ pc = "get_images"
    /\ IF ~fileExists
       THEN /\ pc' = "aborted"
            /\ UNCHANGED << result_node1, rasterizerCalls >>
       ELSE LET ext == extract_images_from_pdf(doc) IN
            /\ rasterizerCalls' = rasterizerCalls + 1
            /\ IF ~ext.ok \/ ext.images = << >>
               THEN /\ pc' = "aborted"
                    /\ UNCHANGED result_node1
               ELSE /\ result_node1' =
                         [returned |-> TRUE,
                          pages_as_base64_png_images |-> EncodePages(ext.images)]
                    /\ pc' = "assign_pages"
    /\ UNCHANGED << fileExists, doc, state, result_node2, documents, i, requests,
                    responses, origin, printed, mock, deterministic, run,
                    first_result >>

\* line 110
MainAssignPages ==
    /\ pc = "assign_pages"
    /\ state' = [state EXCEPT !.pages_as_base64_png_images =
                                  result_node1.pages_as_base64_png_images]
    /\ pc' = "find_layout_items"
    /\ UNCHANGED << fileExists, doc, result_node1, result_node2, documents, i,
                    requests, responses, origin, rasterizerCalls, printed, mock,
                    deterministic, run, first_result >>

\* a variant of FindLayoutItemsBegin that keeps the list of an earlier call
FindLayoutItemsBegin_NoReset ==
    /\ pc = "find_layout_items"
    /\ UNCHANGED << documents, origin >>
    /\ i' = 0
    /\ pc' = IF Len(state.pages_as_base64_png_images) > 0
             THEN "generate_content" ELSE "return"
    /\ UNCHANGED << fileExists, doc, state, result_node1, result_node2, requests,
                    responses, rasterizerCalls, printed, mock, deterministic,
                    run, first_result >>

\* lines 66-68: entry of find_layout_items, called at line 111
FindLayoutItemsBegin ==
    /\ pc = "find_layout_items"
    /\ documents' = << >>
    /\ origin' = << >>
    /\ i' = 0
    /\ pc' = IF Len(state.pages_as_base64_png_images) > 0
             THEN "generate_content" ELSE "return"
    /\ UNCHANGED << fileExists, doc, state, result_node1, result_node2, requests,
                    responses, rasterizerCalls, printed, mock, deterministic,
                    run, first_result >>

\* lines 68-80: the request for page i is sent
GenerateContent ==
    /\ pc = "generate_content"
    /\ requests' = Append(requests,
                          [page_number |-> i,
                           data |-> state.pages_as_base64_png_images[i + 1]])
    /\ pc' = "await_response"
    /\ UNCHANGED << fileExists, doc, state, result_node1, result_node2, documents,
                    i, responses, origin, rasterizerCalls, printed, mock,
                    deterministic, run, first_result >>

\* line 80: what the model may answer to a request carrying the encoded
\* page png; a deterministic model repeats the answer it gave for that page
ModelOutcomes(png) ==
    IF deterministic /\ mock[png] # << >> THEN { mock[png][1] } ELSE Outcomes

\* a variant of HandleResponse that sends the request of the same page again
\* when the call or the parsing fails
HandleResponse_Retry(out) ==
    LET page == InferPage(out, i) IN
    /\ responses' = Append(responses, out)
    /\ mock' = IF deterministic
               THEN [mock EXCEPT ![requests[Len(requests)].data] = << out >>]
               ELSE mock
    /\ IF ~page.ok
       THEN /\ pc' = "generate_content"
            /\ UNCHANGED << documents, origin, i >>
       ELSE /\ documents' = documents \o page.docs
            /\ origin' = origin \o [k \in 1..Len(page.docs) |-> Len(requests)]
            /\ i' = i + 1
            /\ pc' = IF i + 1 < Len(state.pages_as_base64_png_images)
                     THEN "generate_content" ELSE "return"

\* a variant of HandleResponse that catches the failure of a page and goes on
\* with the next page
HandleResponse_Swallow(out) ==
    LET page == InferPage(out, i) IN
    /\ responses' = Append(responses, out)
    /\ mock' = IF deterministic
               THEN [mock EXCEPT ![requests[Len(requests)].data] = << out >>]
               ELSE mock
    /\ documents' = IF page.ok THEN documents \o page.docs ELSE documents
    /\ origin' = IF page.ok
                 THEN origin \o [k \in 1..Len(page.docs) |-> Len(requests)]
                 ELSE origin
    /\ i' = i + 1
    /\ pc' = IF i + 1 < Len(state.pages_as_base64_png_images)
             THEN "generate_content" ELSE "return"

\* lines 80-96 for the outcome out of the call of line 80: an exception leaves
\* find_layout_items and ends the script, otherwise the page's documents are
\* appended and the loop goes on
HandleResponse(out) ==
    LET page == InferPage(out, i) IN
    /\ responses' = Append(responses, out)
    /\ mock' = IF deterministic
               THEN [mock EXCEPT ![requests[Len(requests)].data] = << out >>]
               ELSE mock
    /\ IF ~page.ok
       THEN /\ pc' = "aborted"
            /\ documents' = << >>
            /\ origin' = << >>
            /\ i' = 0
       ELSE /\ documents' = documents \o page.docs
            /\ origin' = origin \o [k \in 1..Len(page.docs) |-> Len(requests)]
            /\ i' = i + 1
            /\ pc' = IF i + 1 < Len(state.pages_as_base64_png_images)
                     THEN "generate_content" ELSE "return"

\* lines 80-96: the model answers (or the call raises), the text is parsed and
\* the page's documents are appended
ReceiveResponse ==
    /\ pc = "await_response"
    /\ \E out \in ModelOutcomes(requests[Len(requests)].data) :
          HandleResponse(out)
    /\ UNCHANGED << fileExists, doc, state, result_node1, result_node2, requests,
                    rasterizerCalls, printed, deterministic, run, first_result >>

\* lines 98-99, and the assignment of line 111
FindLayoutItemsReturn ==
    /\ pc = "return"
    /\ result_node2' = [returned |-> TRUE, documents |-> documents]
    /\ pc' = "print"
    /\ UNCHANGED << fileExists, doc, state, result_node1, documents, i, requests,
                    responses, origin, rasterizerCalls, printed, mock,
                    deterministic, run, first_result >>

\* lines 113-115
MainPrint ==
    /\ pc = "print"
    /\ printed' = [k \in 1..Len(result_node2.documents) |->
                      << result_node2.documents[k].page_content,
                         result_node2.documents[k].metadata.element_type >>]
    /\ pc' = "done"
    /\ UNCHANGED << fileExists, doc, state, result_node1, result_node2, documents,
                    i, requests, responses, origin, rasterizerCalls, mock,
                    deterministic, run, first_result >>

\* the pipeline (lines 109-111) is run a second time on the same document
Rerun ==
    /\ pc = "done"
    /\ run < MaxRuns
    /\ run' = run + 1
    /\ first_result' = result_node2
    /\ result_node1' = NoResult1
    /\ result_node2' = NoResult2
    /\ requests' = << >>
    /\ responses' = << >>
    /\ printed' = << >>
    /\ pc' = "get_images"
    /\ UNCHANGED << fileExists, doc, state, documents, i, origin,
                    rasterizerCalls, mock, deterministic >>

Next ==
    \/ GetImages
    \/ MainAssignPages
    \/ FindLayoutItemsBegin
    \/ GenerateContent
    \/ ReceiveResponse
    \/ FindLayoutItemsReturn
    \/ MainPrint

NextTwice ==
    \/ GetImages
    \/ MainAssignPages
    \/ FindLayoutItemsBegin
    \/ GenerateContent
    \/ ReceiveResponse
    \/ FindLayoutItemsReturn
    \/ MainPrint
    \/ Rerun

Spec == Init /\ [][Next]_vars

SpecTwice == InitTwice /\ [][NextTwice]_vars

-----------------------------------------------------------------------------
TypeOK ==
    /\ pc \in {"get_images", "assign_pages", "find_layout_items",
               "generate_content", "await_response", "return", "print", "done",
               "aborted"}
    /\ i \in 0..(MaxPages + 1)
    /\ run \in 1..MaxRuns
    /\ Len(origin) = Len(documents)

-----------------------------------------------------------------------------
(* Vocabulary of the properties *)

pages == state.pages_as_base64_png_images

\* the call raised, or the returned text is not valid JSON
InferenceFails(out) == out.raises \/ ~out.text.valid

\* valid JSON holding layout_items, every item with summary and element_type
WellFormed(out) ==
    /\ ~out.raises
    /\ out.text.valid
    /\ "layout_items" \in DOMAIN out.text.value
    /\ \A k \in 1..Len(out.text.value["layout_items"]) :
          {"summary", "element_type"}
              \subseteq DOMAIN out.text.value["layout_items"][k]

\* valid JSON that omits a required field or holds an element_type outside
\* the four values
SchemaViolation(out) ==
    /\ ~out.raises
    /\ out.text.valid
    /\ \/ ~WellFormed(out)
       \/ \E k \in 1..Len(out.text.value["layout_items"]) :
             out.text.value["layout_items"][k]["element_type"]
                 \notin ElementTypes

ItemsOf(k) == responses[k].text.value["layout_items"]

\* number of items in the responses received before the k-th one
RECURSIVE ItemCountBefore(_)
ItemCountBefore(k) ==
    IF k <= 1 THEN 0 ELSE ItemCountBefore(k - 1) + Len(ItemsOf(k - 1))

OnPage(docs, n) == { k \in 1..Len(docs) : docs[k].metadata.page_number = n }

-----------------------------------------------------------------------------
\* C1: a successful find_layout_items returns the concatenation, in page
\* order, of the items of the responses r[0..N-1] received for the pages:
\* item j of the response for page n becomes exactly one element, at position
\* (items of earlier pages) + j, with the item's summary and element_type
\* unchanged and page_number = n; nothing else is in the result.
C1_Concatenation ==
    result_node2.returned =>
        /\ Len(responses) = Len(pages)
        /\ \A k \in 1..Len(responses) : WellFormed(responses[k])
        /\ Len(result_node2.documents) = ItemCountBefore(Len(responses) + 1)
        /\ \A k \in 1..Len(responses) : \A j \in 1..Len(ItemsOf(k)) :
              LET d == result_node2.documents[ItemCountBefore(k) + j] IN
              /\ d.page_content = ItemsOf(k)[j]["summary"]
              /\ d.metadata.element_type = ItemsOf(k)[j]["element_type"]
              /\ d.metadata.page_number = k - 1

\* two pages, the first with two different items, the second with one
C1_Witness ==
    /\ result_node2.returned
    /\ Len(responses) = 2
    /\ Len(ItemsOf(1)) = 2
    /\ ItemsOf(1)[1] # ItemsOf(1)[2]
    /\ Len(ItemsOf(2)) = 1
    /\ Len(result_node2.documents) = 3

\* the scenario of the specification: one Table on page 0, nothing on page 1
C1_ScenarioReached ==
    /\ result_node2.returned
    /\ Len(responses) = 2
    /\ ItemsOf(1) = << [summary |-> "s1", element_type |-> "Table"] >>
    /\ ItemsOf(2) = << >>
    /\ result_node2.documents =
          << [page_content |-> "s1",
              metadata |-> [page_number |-> 0, element_type |-> "Table"]] >>

-----------------------------------------------------------------------------
\* C2: the model is asked once per page, in increasing page order: the k-th
\* request is the one for page k-1 and carries that page's image, at most one
\* request is unanswered, a request is sent only when every earlier request
\* has been answered successfully and its items are in documents, and a
\* successful run has sent as many requests as there are pages.
C2_StateInv ==
    /\ Len(requests) <= Len(pages)
    /\ \A k \in 1..Len(requests) :
          /\ requests[k].page_number = k - 1
          /\ requests[k].data = pages[k]
    /\ Len(responses) <= Len(requests)
    /\ Len(requests) <= Len(responses) + 1
    /\ (pc = "await_response") <=> (Len(requests) = Len(responses) + 1)
    /\ result_node2.returned => Len(requests) = Len(pages)

C2_SendStep ==
    Len(requests') > Len(requests) =>
        /\ Len(requests') = Len(requests) + 1
        /\ Len(responses) = Len(requests)
        /\ \A k \in 1..Len(responses) : WellFormed(responses[k])
        /\ Len(documents) = ItemCountBefore(Len(responses) + 1)
        /\ i = Len(requests)

C2_OncePerPageInOrder == [](C2_StateInv) /\ [][C2_SendStep]_vars

\* the second page's request is out, the first page's items are kept
C2_Witness ==
    /\ pc = "await_response"
    /\ Len(requests) = 2
    /\ Len(responses) = 1
    /\ Len(documents) = 2

-----------------------------------------------------------------------------
\* C3: if the request of page k raises or its text is not valid JSON, the run
\* stops there: that outcome is the last one received, no later request is
\* sent, find_layout_items returns nothing (the elements of the earlier pages
\* are lost too) and nothing is printed.
C3_FailureAborts ==
    \A k \in 1..Len(responses) :
        InferenceFails(responses[k]) =>
            /\ pc = "aborted"
            /\ k = Len(responses)
            /\ Len(requests) = k
            /\ ~result_node2.returned
            /\ documents = << >>
            /\ printed = << >>

\* page 0 gave two elements, page 1 failed
C3_Witness ==
    /\ pc = "aborted"
    /\ Len(responses) = 2
    /\ WellFormed(responses[1])
    /\ Len(ItemsOf(1)) = 2
    /\ InferenceFails(responses[2])

-----------------------------------------------------------------------------
\* C4: when document_path is not an existing file, get_images fails before
\* the rasterizer is called and before any model request; no pages and no
\* elements exist.
C4_MissingFileFailsFirst ==
    ~fileExists =>
        /\ pc \in {"get_images", "aborted"}
        /\ rasterizerCalls = 0
        /\ requests = << >>
        /\ ~result_node1.returned
        /\ ~result_node2.returned
        /\ pages = << >>
        /\ documents = << >>
        /\ state.documents = << >>

C4_Witness == ~fileExists /\ pc = "aborted"

-----------------------------------------------------------------------------
\* C5: a successful get_images yields exactly one encoded page per image of
\* the rasterizer, entry k being the encoding of image k; with no image
\* get_images fails; pages is non-empty once rasterization succeeded.
C5_PagesMatchImages ==
    /\ result_node1.returned =>
          /\ Len(result_node1.pages_as_base64_png_images) = Len(doc.images)
          /\ Len(doc.images) > 0
          /\ \A k \in 1..Len(doc.images) :
                result_node1.pages_as_base64_png_images[k]
                    = pil_image_to_base64_png(doc.images[k])
    /\ (doc.images = << >> /\ pc # "get_images") =>
          (pc = "aborted" /\ ~result_node1.returned)
    /\ pc \in {"find_layout_items", "generate_content", "await_response",
               "return", "print", "done"} =>
          (pages # << >> /\ pages = result_node1.pages_as_base64_png_images)

C5_Witness ==
    /\ result_node1.returned
    /\ Len(pages) = 2
    /\ doc.images[1] # doc.images[2]
    /\ pages[1] # pages[2]

\* the rasterizer gave no image and get_images failed
C5_EmptyReached ==
    fileExists /\ doc.readable /\ doc.images = << >> /\ pc = "aborted"

-----------------------------------------------------------------------------
\* C6 (as claimed): a response that omits a required field or holds an
\* element_type outside Table, Figure, Image, Text-block aborts the run, so
\* no extracted element has an element_type outside those four.
C6_Original ==
    /\ \A k \in 1..Len(responses) :
          SchemaViolation(responses[k]) =>
              (pc = "aborted" /\ k = Len(responses))
    /\ \A k \in 1..Len(documents) :
          documents[k].metadata.element_type \in ElementTypes
    /\ \A k \in 1..Len(result_node2.documents) :
          result_node2.documents[k].metadata.element_type \in ElementTypes

-----------------------------------------------------------------------------
\* C7 (as claimed): the output of find_layout_items holds at most 10 elements
\* for each page number, whatever the model returned.
C7_Original ==
    \A n \in 0..MaxPages :
        Cardinality(OnPage(result_node2.documents, n)) <= MaxItemsPerPage

-----------------------------------------------------------------------------
\* C8: every extracted element's page_number is an index of pages
\* (0 <= page_number < len(pages)) and is the index of the page whose image
\* was sent in the request that produced the element.
C8_PageNumberValid ==
    /\ \A k \in 1..Len(documents) :
          LET n == documents[k].metadata.page_number IN
          /\ 0 <= n
          /\ n < Len(pages)
          /\ origin[k] \in 1..Len(requests)
          /\ requests[origin[k]].page_number = n
          /\ requests[origin[k]].data = pages[n + 1]
    /\ result_node2.returned => result_node2.documents = documents

C8_Witness ==
    /\ result_node2.returned
    /\ \E k \in 1..Len(documents) : documents[k].metadata.page_number = 1
    /\ \E k \in 1..Len(documents) : documents[k].metadata.page_number = 0
    /\ pages[1] # pages[2]

-----------------------------------------------------------------------------
Phase ==
    IF result_node2.returned THEN "Completed"
    ELSE IF pages # << >> THEN "Rasterized"
    ELSE "Initialized"

C9_PhaseInv ==
    /\ state.documents = << >>
    /\ state.document_path = "docs.pdf"
    /\ Phase = "Initialized" => documents = << >>
    /\ Phase = "Completed" => pages # << >>
    /\ pc \in {"print", "done"} => Phase = "Completed"

C9_PhaseStep ==
    /\ \/ Phase' = Phase
       \/ Phase = "Initialized" /\ Phase' = "Rasterized"
       \/ Phase = "Rasterized" /\ Phase' = "Completed"
    /\ Phase' # Phase => pages' # << >>
    /\ Phase = "Rasterized" => pages' = pages
    /\ Phase = "Completed" => (pages' = pages /\ result_node2' = result_node2)
    /\ pc' = "aborted" => Phase' = Phase
    /\ pc = "aborted" => vars' = vars

-----------------------------------------------------------------------------
\* C10: with a deterministic model, a second run of the pipeline on the same
\* document completes whenever the first did and returns the same ordered
\* elements as the first run; nothing of the first run is carried over.
C10_SecondRunIdentical ==
    run > 1 =>
        /\ pc # "aborted"
        /\ first_result.returned
        /\ result_node2.returned => result_node2 = first_result
        /\ pc \in {"generate_content", "await_response", "return"} =>
              /\ Len(documents) <= Len(first_result.documents)
              /\ \A k \in 1..Len(documents) :
                    documents[k] = first_result.documents[k]

C10_Witness ==
    /\ run = 2
    /\ pc = "done"
    /\ Len(result_node2.documents) = 3
    /\ result_node2.documents[1] # result_node2.documents[3]

====
